---------------------------- MODULE Spec2Model ----------------------------
(* A model of src/agent.py: the Telegram conversation handler            *)
(* (handle_text, start, cancel), the report pipeline                     *)
(* (create_report_pipline), the search aggregation (search_web) and the  *)
(* message splitter (_split_message).                                    *)
(*                                                                       *)
(* A Python str is a sequence of one-character strings; a few fixed      *)
(* literals of the program are kept as one token each.                   *)
EXTENDS Integers, Sequences, FiniteSets, TLC

-----------------------------------------------------------------------------
(* Python str and list operations used by the program *)

NL == "\n"

\* str.strip() / str.split() treat these as whitespace
IsSpace(c) == c \in {" ", NL}

RECURSIVE LStrip(_)
LStrip(s) == IF s # <<>> /\ IsSpace(Head(s)) THEN LStrip(Tail(s)) ELSE s

RECURSIVE RStrip(_)
RStrip(s) ==
    IF s # <<>> /\ IsSpace(s[Len(s)]) THEN RStrip(SubSeq(s, 1, Len(s) - 1)) ELSE s

\* str.strip()
Strip(s) == RStrip(LStrip(s))

\* sep.join(parts) for a one-character (or empty) separator
RECURSIVE Join(_, _)
Join(sep, parts) ==
    IF parts = <<>> THEN <<>>
    ELSE IF Len(parts) = 1 THEN parts[1]
    ELSE parts[1] \o sep \o Join(sep, Tail(parts))

\* str.split("\n"): always at least one (possibly empty) field
RECURSIVE SplitNL(_)
SplitNL(s) ==
    IF \A i \in 1..Len(s) : s[i] # NL THEN <<s>>
    ELSE LET k == CHOOSE i \in 1..Len(s) :
                     s[i] = NL /\ \A j \in 1..(i - 1) : s[j] # NL
         IN  <<SubSeq(s, 1, k - 1)>> \o SplitNL(SubSeq(s, k + 1, Len(s)))

\* str.splitlines(keepends=True): no field for the empty string, no empty
\* last field after a trailing newline (the newline is the only line break
\* among the characters of the model's texts)
RECURSIVE SplitLinesKeep(_)
SplitLinesKeep(s) ==
    IF s = <<>> THEN <<>>
    ELSE IF \A i \in 1..Len(s) : s[i] # NL THEN <<s>>
    ELSE LET k == CHOOSE i \in 1..Len(s) :
                     s[i] = NL /\ \A j \in 1..(i - 1) : s[j] # NL
         IN  <<SubSeq(s, 1, k)>> \o SplitLinesKeep(SubSeq(s, k + 1, Len(s)))

\* str.lower() on the letters the model uses
LowerChar(c) == IF c = "Y" THEN "y" ELSE IF c = "E" THEN "e" ELSE IF c = "S" THEN "s" ELSE c

Lower(s) == [i \in 1..Len(s) |-> LowerChar(s[i])]

\* c in s
Contains(s, c) == \E i \in 1..Len(s) : s[i] = c


-----------------------------------------------------------------------------
(* Bounds and inputs of the model *)

\* the longest list of clarifying questions the Reasoning Service returns
MaxQuestions == 4

\* str(update.effective_user.id) of the user whose conversation is followed
UserIds == {<<"7">>, <<"8">>}

\* update.message.text of a free-text message, before strip()
Texts == {<<"a">>, <<" ", "Y", "e", "s">>, <<"m", "@">>}

\* the i-th clarifying question: i copies of "q", so questions differ by index
QText(i) == [j \in 1..i |-> "q"]

\* question lists: 0..MaxQuestions different questions, and one with a repeat
QuestionLists ==
    {[j \in 1..n |-> QText(j)] : n \in 0..MaxQuestions}
        \cup {<<QText(3), QText(3), QText(1)>>}

\* an event of Runner.run_async: is_final_response(), content is not None,
\* and the text of each of content.parts (every part of the model has a text)
Ev(final, has_content, parts) ==
    [final |-> final, has_content |-> has_content, parts |-> parts]

\* a run_async stream: its events, and whether it raises once they are consumed
St(events, raises) == [events |-> events, raises |-> raises]

\* the clarify agent's reply for a question list: a preamble line, then one
\* question per line
ClarifyText(qs) == Join(<<NL>>, <<(<<"p">>)>> \o qs)

ClarifyStreams ==
    {St(<<Ev(TRUE, TRUE, <<ClarifyText(qs)>>)>>, FALSE) : qs \in QuestionLists}
        \cup {
            \* blank lines and padding around three questions
            St(<<Ev(TRUE, TRUE,
                    <<(<<"p", NL, NL, " ", "q", " ", NL, "q", "q", NL, "q", "q", "q", NL>>)>>)>>,
               FALSE),
            \* no final response
            St(<<Ev(FALSE, TRUE, <<ClarifyText(<<QText(1)>>)>>)>>, FALSE),
            \* a final response without parts
            St(<<Ev(TRUE, TRUE, <<>>)>>, FALSE),
            \* the call raises
            St(<<>>, TRUE)
        }

\* text fragments of the pipeline agents' events
F1 == <<"r">>
F2 == <<"#">>

\* streams of the refine, planner, search, writer and email runners
Streams == {
    St(<<Ev(FALSE, TRUE, <<F2>>), Ev(TRUE, TRUE, <<F1>>)>>, FALSE),
    St(<<Ev(TRUE, TRUE, <<F1, F2>>)>>, FALSE),
    St(<<Ev(TRUE, TRUE, <<F1>>), Ev(TRUE, TRUE, <<F2>>)>>, FALSE),
    St(<<Ev(FALSE, TRUE, <<F2>>)>>, FALSE),
    St(<<Ev(TRUE, TRUE, <<>>)>>, FALSE),
    St(<<Ev(TRUE, FALSE, <<>>)>>, FALSE),
    St(<<Ev(TRUE, TRUE, <<F1>>)>>, TRUE),
    St(<<>>, TRUE)
}

-----------------------------------------------------------------------------
(* Python dict operations: user_data is a function on the keys it holds;   *)
(* the answers dict, whose insertion order matters, is a sequence of       *)
(* <<key, value>> pairs with pairwise different keys.                      *)

EmptyDict == <<>>

Has(d, k) == k \in DOMAIN d

\* d.get(k, default)
Get(d, k, default) == IF Has(d, k) THEN d[k] ELSE default

\* d[k] = v
Put(d, k, v) == (k :> v) @@ d

\* answers[k] = v: an existing key keeps its place and takes the new value
DictSet(d, k, v) ==
    IF \E i \in 1..Len(d) : d[i][1] = k
    THEN [i \in 1..Len(d) |-> IF d[i][1] = k THEN <<k, v>> ELSE d[i]]
    ELSE Append(d, <<k, v>>)

-----------------------------------------------------------------------------
(* Stage and the fixed texts of the program *)

WAITING_QUERY == 0
ASKING == 1
EMAIL_DECISION == 2
EMAIL_ADDR == 3

GreetingMsg == <<"Hi! I'm a research assistant.Send me any research question and I'll investigate.">>
ByeMsg == <<"Bye! See you next time.">>
WorkingMsg == <<"I have all the information I need. I'm working on your report now.">>
EmailPromptMsg == <<"Do you want to email the report to yourself? (yes/no)">>
AskAddressMsg == <<"Great! Please provide the email address.">>
NoProblemMsg == <<"No problem. Do you have any question?">>
BadAddressMsg == <<"That doesn't look like an e-mail address. Try again.">>
SentMsg == <<"Sent!">>

\* text.lower() in ("yes", "y", "yeah", "sure")
Affirmations ==
    {<<"y", "e", "s">>, <<"y">>, <<"y", "e", "a", "h">>, <<"s", "u", "r", "e">>}

\* session_id = f"tg_{user_id}"
SessionId(user_id) == <<"tg_">> \o user_id

\* the limit parameter's default in _split_message
DefaultLimit == 4096

-----------------------------------------------------------------------------
(* Results of consuming a run_async stream: a value, or the exception raised *)

Ok(v) == [err |-> "", value |-> v]
Err(e) == [err |-> e, value |-> <<>>]

\* questions = [q.strip() for q in text.split("\n") if q.strip()]
NonEmpty(q) == q # <<>>
ParseQuestions(text) ==
    LET fields == SplitNL(text)
    IN  SelectSeq([i \in 1..Len(fields) |-> Strip(fields[i])], NonEmpty)

\* the clarify loop of handle_text: every final event with content replaces
\* questions (there is no break); parts[0] of an empty parts list is an
\* IndexError; the stream's own exception propagates
RECURSIVE ClarifyScan(_, _, _)
ClarifyScan(events, raises, questions) ==
    IF events = <<>>
    THEN IF raises THEN Err("ServiceError") ELSE Ok(questions)
    ELSE LET e == Head(events)
         IN  IF e.final /\ e.has_content
             THEN IF e.parts = <<>> THEN Err("IndexError")
                  ELSE ClarifyScan(Tail(events), raises, ParseQuestions(e.parts[1]))
             ELSE ClarifyScan(Tail(events), raises, questions)

\* questions = []; the loop; questions = questions[1:]
ClarifyQuestions(stream) ==
    LET r == ClarifyScan(stream.events, stream.raises, <<>>)
    IN  IF r.err # "" THEN r
        ELSE Ok(IF r.value = <<>> THEN <<>> ELSE Tail(r.value))

\* the refine loop: the first final event with a non-empty parts list gives
\* parts[0].text and ends the loop; event.content.parts of a final event
\* without content is an AttributeError; with no such event refined_query is
\* unbound at the print
RECURSIVE RefineScan(_, _)
RefineScan(events, raises) ==
    IF events = <<>>
    THEN IF raises THEN Err("ServiceError") ELSE Err("UnboundLocalError")
    ELSE LET e == Head(events)
         IN  IF e.final
             THEN IF ~e.has_content THEN Err("AttributeError")
                  ELSE IF e.parts # <<>> THEN Ok(e.parts[1])
                  ELSE RefineScan(Tail(events), raises)
             ELSE RefineScan(Tail(events), raises)

RefinedQuery(stream) == RefineScan(stream.events, stream.raises)

\* the planner loop: the first final event with content gives parts[0].text
\* (IndexError on an empty parts list) and ends the loop; with no such event
\* search_plan is unbound where the next message is built
RECURSIVE PlanScan(_, _)
PlanScan(events, raises) ==
    IF events = <<>>
    THEN IF raises THEN Err("ServiceError") ELSE Err("UnboundLocalError")
    ELSE LET e == Head(events)
         IN  IF e.final /\ e.has_content
             THEN IF e.parts = <<>> THEN Err("IndexError") ELSE Ok(e.parts[1])
             ELSE PlanScan(Tail(events), raises)

SearchPlan(stream) == PlanScan(stream.events, stream.raises)

\* the search and writer loops: the texts of all parts of every final event
\* with content are collected (there is no break)
RECURSIVE CollectParts(_)
CollectParts(events) ==
    IF events = <<>> THEN <<>>
    ELSE LET e == Head(events)
         IN  (IF e.final /\ e.has_content THEN e.parts ELSE <<>>)
                 \o CollectParts(Tail(events))

\* search_results = "\n".join(search_results)
SearchResults(stream) ==
    IF stream.raises THEN Err("ServiceError")
    ELSE Ok(Join(<<NL>>, CollectParts(stream.events)))

\* report = "\n".join(full_report_parts)
WriterReport(stream) ==
    IF stream.raises THEN Err("ServiceError")
    ELSE Ok(Join(<<NL>>, CollectParts(stream.events)))

\* the email loop: ends at the first final event; the stream's exception is
\* met only if no final event comes before it
EmailRaises(stream) ==
    stream.raises /\ \A i \in 1..Len(stream.events) : ~stream.events[i].final

\* combined_query of create_report_pipline
CombinedQuery(query, answers) ==
    <<"User query: ">> \o query \o <<NL, NL>>
        \o Join(<<NL>>, [i \in 1..Len(answers) |->
                            answers[i][1] \o <<"->">> \o answers[i][2]])

\* prompt of the email stage
EmailPrompt(report, email) ==
    <<"Report to send:", NL, NL>> \o report \o <<NL, NL, "E-mail address: ">> \o email

-----------------------------------------------------------------------------
(* _split_message and escape_markdown *)

\* the for loop of _split_message and the final flush of buf
RECURSIVE SplitLoop(_, _, _, _)
SplitLoop(lines, out, buf, limit) ==
    IF lines = <<>>
    THEN IF buf # <<>> THEN Append(out, buf) ELSE out
    ELSE LET line == Head(lines)
         IN  IF Len(buf) + Len(line) > limit
             THEN SplitLoop(Tail(lines), Append(out, buf), line, limit)
             ELSE SplitLoop(Tail(lines), out, buf \o line, limit)

\* a variant that splits the text at its newlines and drops them
split_message_NoKeepends(md, limit) == SplitLoop(SplitNL(md), <<>>, <<>>, limit)

\* _split_message(md, limit)
split_message(md, limit) == SplitLoop(SplitLinesKeep(md), <<>>, <<>>, limit)

\* telegram.helpers.escape_markdown(text, version=2): a backslash before each
\* of the MarkdownV2 special characters (the grave accent, which the library
\* escapes too, is not a character of the model's texts)
EscapeChars ==
    {"\\", "_", "*", "[", "]", "(", ")", "~", ">", "#", "+", "-", "=", "|",
     "{", "}", ".", "!"}

RECURSIVE escape_markdown(_)
escape_markdown(text) ==
    IF text = <<>> THEN <<>>
    ELSE (IF Head(text) \in EscapeChars THEN <<"\\", Head(text)>> ELSE <<Head(text)>>)
             \o escape_markdown(Tail(text))

-----------------------------------------------------------------------------
(* The conversation: state *)

VARIABLES
    user_data,  \* context.user_data of the user: a dict
    uid,        \* str(update.effective_user.id)
    pc,         \* where the handler in progress is suspended, or "idle"
    msg,        \* the stripped text of the message being handled
    calls,      \* the run_async calls the handler in progress has made
    outs,       \* refined_query, search_plan, search_results, report so far
    sent,       \* the replies of the current (or last) update, in order
    outcome,    \* how the last handler ended: "ok" or the exception's name
    answered,   \* history: the texts handled in ASKING since it was entered (the
                \* first four of them)
    no_final,   \* history: a pipeline stage of the current (or last) update
                \* consumed a stream without a final response event
    last_text,  \* history: update.message.text of the last free-text update
    mail_failed,\* history: the email stage of the current (or last) update raised
                \* or ended without a final response event
    stage_was   \* history: the session's stage when the current (or last) update
                \* was handed to its handler

convVars ==
    <<user_data, uid, pc, msg, calls, outs, sent, outcome, answered, no_final, last_text,
      mail_failed, stage_was>>

\* one run_async call: the runner, and its user_id, session_id, new_message
Call(runner, user_id, session_id, text) ==
    [runner |-> runner, user_id |-> user_id, session_id |-> session_id, text |-> text]

\* stage = context.user_data.get("stage", Stage.WAITING_QUERY)
CurrentStage == Get(user_data, "stage", WAITING_QUERY)

ConvInit ==
    /\ user_data = EmptyDict
    /\ uid \in UserIds
    /\ pc = "idle"
    /\ msg = <<>>
    /\ calls = <<>>
    /\ outs = <<>>
    /\ sent = <<>>
    /\ outcome = ""
    /\ answered = <<>>
    /\ no_final = FALSE
    /\ last_text = <<>>
    /\ mail_failed = FALSE
    /\ stage_was = WAITING_QUERY

\* the handler returns: its locals are gone
Return ==
    /\ pc' = "idle"
    /\ msg' = <<>>
    /\ calls' = <<>>
    /\ outs' = <<>>
    /\ outcome' = "ok"

\* the handler ends with an exception, which the Application logs
Raise(e) ==
    /\ pc' = "idle"
    /\ msg' = <<>>
    /\ calls' = <<>>
    /\ outs' = <<>>
    /\ outcome' = e

-----------------------------------------------------------------------------
(* The dispatch of updates *)

\* a variant that hands an update to its handler while another handler is
\* still suspended
Dispatchable_Concurrent == TRUE

\* the Application of main() is built without concurrent_updates and the
\* handlers are registered blocking: an update is handed to its handler only
\* when the handler of the update before it has returned or raised
Dispatchable == pc = "idle"

-----------------------------------------------------------------------------
(* The commands *)

\* a variant that resets the stage and keeps the other fields
Clear_StageOnly(ud) == [k \in DOMAIN ud \ {"stage"} |-> ud[k]]

\* context.user_data.clear()
Clear(ud) == EmptyDict

\* /start
start ==
    /\ Dispatchable
    /\ user_data' = Put(Clear(user_data), "stage", WAITING_QUERY)
    /\ sent' = <<GreetingMsg>>
    /\ Return
    /\ answered' = <<>>
    /\ no_final' = FALSE
    /\ last_text' = <<>>
    /\ mail_failed' = FALSE
    /\ stage_was' = CurrentStage
    /\ UNCHANGED uid

\* /cancel: the second definition of cancel is the one registered
cancel ==
    /\ Dispatchable
    /\ user_data' = Clear(user_data)
    /\ sent' = <<ByeMsg>>
    /\ Return
    /\ answered' = <<>>
    /\ no_final' = FALSE
    /\ last_text' = <<>>
    /\ mail_failed' = FALSE
    /\ stage_was' = CurrentStage
    /\ UNCHANGED uid

-----------------------------------------------------------------------------
(* handle_text in WAITING_QUERY *)

\* up to the await of the clarify runner (session_service.create_session is
\* taken to succeed)
handle_text_waiting_query(t) ==
    /\ Dispatchable
    /\ CurrentStage = WAITING_QUERY
    /\ msg' = Strip(t)
    /\ calls' = <<Call("clarify", uid, SessionId(uid), Strip(t))>>
    /\ pc' = "clarify"
    /\ outs' = <<>>
    /\ sent' = <<>>
    /\ outcome' = ""
    /\ no_final' = FALSE
    /\ last_text' = t
    /\ mail_failed' = FALSE
    /\ stage_was' = CurrentStage
    /\ UNCHANGED <<user_data, uid, answered>>

\* context.user_data.update({...})
EnterAsking(ud, questions, query) ==
    [stage |-> ASKING, questions |-> questions, query |-> query,
     answers |-> <<>>, q_idx |-> 0] @@ ud

\* the clarify stream is consumed; the session enters ASKING; the first
\* question is sent (questions[0] of an empty list is an IndexError)
clarify_returns(stream) ==
    /\ pc = "clarify"
    /\ LET r == ClarifyQuestions(stream)
       IN  IF r.err # ""
           THEN /\ Raise(r.err)
                /\ UNCHANGED <<user_data, sent, answered>>
           ELSE /\ user_data' = EnterAsking(user_data, r.value, msg)
                /\ answered' = <<>>
                /\ IF r.value = <<>>
                   THEN Raise("IndexError") /\ UNCHANGED sent
                   ELSE Return /\ sent' = Append(sent, r.value[1])
    /\ UNCHANGED <<uid, no_final, last_text, mail_failed, stage_was>>

-----------------------------------------------------------------------------
(* handle_text in ASKING *)

\* context.user_data["answers"][current_q] = text;
\* context.user_data["q_idx"] = q_idx+1
RecordAnswer(ud, text) ==
    [ud EXCEPT !["answers"] = DictSet(@, ud["questions"][ud["q_idx"] + 1], text),
               !["q_idx"] = @ + 1]

\* if q_idx < 2: the branch that sends the next question
AsksNext(q_idx) == q_idx < 2

\* the lists are 0-based in the program and 1-based here
handle_text_asking(t) ==
    /\ Dispatchable
    /\ CurrentStage = ASKING
    /\ LET text == Strip(t)
           q_idx == user_data["q_idx"]
           questions == user_data["questions"]
       IN  IF q_idx >= Len(questions)
           THEN \* current_q = questions[q_idx]
                /\ Raise("IndexError")
                /\ sent' = <<>>
                /\ UNCHANGED user_data
           ELSE /\ user_data' = RecordAnswer(user_data, text)
                /\ IF AsksNext(q_idx)
                   THEN IF q_idx + 1 >= Len(questions)
                        THEN Raise("IndexError") /\ sent' = <<>>
                        ELSE Return /\ sent' = <<questions[q_idx + 2]>>
                   ELSE \* create_report_pipline up to the await of the refine runner
                        /\ sent' = <<WorkingMsg>>
                        /\ msg' = text
                        /\ calls' = <<Call("refine", uid, SessionId(uid),
                                          CombinedQuery(user_data["query"],
                                                        user_data'["answers"]))>>
                        /\ outs' = <<>>
                        /\ pc' = "refine"
                        /\ outcome' = ""
    /\ answered' = IF Len(answered) <= 3 THEN Append(answered, Strip(t)) ELSE answered
    /\ no_final' = FALSE
    /\ last_text' = t
    /\ mail_failed' = FALSE
    /\ stage_was' = CurrentStage
    /\ UNCHANGED uid

\* a variant that gives every later stage the refined query
StageInput_Refined(results) == results[1]

\* the text a pipeline stage is started with: the previous stage's result
StageInput(results) == results[Len(results)]

\* no event of the stream is a final response
NoFinal(stream) == \A i \in 1..Len(stream.events) : ~stream.events[i].final

\* a pipeline stage's stream is consumed and the next stage is started
StageReturns(at, stream, r, next) ==
    /\ pc = at
    /\ no_final' = (no_final \/ NoFinal(stream))
    /\ IF r.err # ""
       THEN /\ Raise(r.err)
       ELSE /\ outs' = Append(outs, r.value)
            /\ calls' = Append(calls, Call(next, uid, SessionId(uid), StageInput(outs')))
            /\ pc' = next
            /\ UNCHANGED <<msg, outcome>>
    /\ UNCHANGED <<user_data, uid, sent, answered, last_text, mail_failed, stage_was>>

refine_returns(stream) ==
    StageReturns("refine", stream, RefinedQuery(stream), "planner")

planner_returns(stream) ==
    StageReturns("planner", stream, SearchPlan(stream), "search")

search_returns(stream) ==
    StageReturns("search", stream, SearchResults(stream), "writer")

\* a variant that forgets to store the report
StoreReport_NotStored(ud, report) == ud

\* context.user_data["report"] = report
StoreReport(ud, report) == Put(ud, "report", report)

\* the writer's stream is consumed, create_report_pipline returns and
\* context.user_data["report"] = report
writer_returns(stream) ==
    /\ pc = "writer"
    /\ LET r == WriterReport(stream)
       IN  IF r.err # ""
           THEN /\ Raise(r.err)
                /\ UNCHANGED user_data
           ELSE /\ outs' = Append(outs, r.value)
                /\ user_data' = StoreReport(user_data, r.value)
                /\ pc' = "send"
                /\ UNCHANGED <<msg, calls, outcome>>
    /\ no_final' = (no_final \/ NoFinal(stream))
    /\ UNCHANGED <<uid, sent, answered, last_text, mail_failed, stage_was>>

\* the escaped chunks of the report, in the order they are sent
ReportMessages(report) ==
    LET chunks == split_message(report, DefaultLimit)
    IN  [i \in 1..Len(chunks) |-> escape_markdown(chunks[i])]

\* a variant that asks about the email before it sends the report
Delivery_PromptFirst(report) == <<EmailPromptMsg>> \o ReportMessages(report)

\* what the handler sends once the report is stored
Delivery(report) == ReportMessages(report) \o <<EmailPromptMsg>>

\* the chunks of the local report are sent, the stage changes, the email
\* prompt is sent
send_report ==
    /\ pc = "send"
    /\ sent' = sent \o Delivery(outs[4])
    /\ user_data' = Put(user_data, "stage", EMAIL_DECISION)
    /\ Return
    /\ UNCHANGED <<uid, answered, no_final, last_text, mail_failed, stage_was>>

-----------------------------------------------------------------------------
(* handle_text in EMAIL_DECISION and EMAIL_ADDR *)

\* a variant that compares the text as it was typed
IsAffirmative_CaseSensitive(text) == text \in Affirmations

\* text.lower() in ("yes", "y", "yeah", "sure")
IsAffirmative(text) == Lower(text) \in Affirmations

handle_text_email_decision(t) ==
    /\ Dispatchable
    /\ CurrentStage = EMAIL_DECISION
    /\ IF IsAffirmative(Strip(t))
       THEN /\ user_data' = Put(user_data, "stage", EMAIL_ADDR)
            /\ sent' = <<AskAddressMsg>>
       ELSE /\ user_data' = Put(user_data, "stage", WAITING_QUERY)
            /\ sent' = <<NoProblemMsg>>
    /\ Return
    /\ no_final' = FALSE
    /\ last_text' = t
    /\ mail_failed' = FALSE
    /\ stage_was' = CurrentStage
    /\ UNCHANGED <<uid, answered>>

\* a variant that takes any text for an address
ValidAddress_Any(email) == TRUE

\* the test of if "@" not in email
ValidAddress(email) == Contains(email, "@")

\* up to the await of the email runner, or the rejection of the address
handle_text_email_addr(t) ==
    /\ Dispatchable
    /\ CurrentStage = EMAIL_ADDR
    /\ LET email == Strip(Strip(t))
       IN  IF ~ValidAddress(email)
           THEN /\ sent' = <<BadAddressMsg>>
                /\ Return
           ELSE IF ~Has(user_data, "report")
           THEN \* context.user_data['report']
                /\ sent' = <<>>
                /\ Raise("KeyError")
           ELSE /\ sent' = <<>>
                /\ msg' = email
                /\ calls' = <<Call("email", uid, SessionId(uid),
                                  EmailPrompt(user_data["report"], email))>>
                /\ outs' = <<>>
                /\ pc' = "email"
                /\ outcome' = ""
    /\ no_final' = FALSE
    /\ last_text' = t
    /\ mail_failed' = FALSE
    /\ stage_was' = CurrentStage
    /\ UNCHANGED <<user_data, uid, answered>>

\* the email stream is consumed up to its first final event
email_returns(stream) ==
    /\ pc = "email"
    /\ IF EmailRaises(stream)
       THEN /\ Raise("ServiceError")
            /\ UNCHANGED <<user_data, sent>>
       ELSE /\ sent' = Append(sent, SentMsg)
            /\ user_data' = Put(user_data, "stage", WAITING_QUERY)
            /\ Return
    /\ mail_failed' = (EmailRaises(stream) \/ NoFinal(stream))
    /\ UNCHANGED <<uid, answered, no_final, last_text, stage_was>>

-----------------------------------------------------------------------------
(* search_web: inputs *)

\* the most results Provider A returns in the model
MaxA == 2

\* the most entries of extract_response["results"] in the model
MaxExtracted == 2

\* the most organic results of Provider B in the model, but for one long list
MaxB == 2

\* (results.get("organic_results") or [])[:5]
SerpLimit == 5

Urls == {"u1", "u2"}

\* all sequences over S of length at most n
SeqsUpTo(S, n) == UNION {[1..k -> S] : k \in 0..n}

\* response["results"] of client.search: a missing url is read as ""
TavilyResults ==
    SeqsUpTo({[url |-> u, title |-> "t"] : u \in Urls \cup {""}}, MaxA)

\* extract_response of client.extract; failed_results is kept as the set of
\* its urls, which is all the program reads of it
ExtractResponses ==
    {[results |-> r, failed_results |-> f] :
        r \in SeqsUpTo({[url |-> u, raw_content |-> c] : u \in Urls, c \in {"c1", "c2"}},
                       MaxExtracted),
        f \in SUBSET Urls}

OrganicItems ==
    {[link |-> "u1", title |-> "b1", snippet |-> "s1"],
     [link |-> "u2", title |-> "b2", snippet |-> "s2"]}

\* results["organic_results"] of GoogleSearch(params).get_dict()
OrganicResults ==
    SeqsUpTo(OrganicItems, MaxB)
        \cup {[i \in 1..(SerpLimit + 1) |->
                  [link |-> "u1", title |-> "b1", snippet |-> "s1"]]}

-----------------------------------------------------------------------------
(* search_web: tavily_search, serp_search *)

\* context["sources"] as first built
Sources(results) ==
    [i \in 1..Len(results) |-> [url |-> results[i].url, title |-> results[i].title]]

\* urls_to_extract
HasUrl(source) == source.url # ""
UrlsToExtract(sources) ==
    LET with == SelectSeq(sources, HasUrl)
    IN  [i \in 1..Len(with) |-> with[i].url]

\* the nested loops over extract_response["results"] and context["sources"]:
\* every source with the extracted url gets its content (a later extraction
\* of the same url replaces it)
RECURSIVE AttachContent(_, _)
AttachContent(sources, extracted) ==
    IF extracted = <<>> THEN sources
    ELSE AttachContent(
             [i \in 1..Len(sources) |->
                 IF sources[i].url = Head(extracted).url
                 THEN [url |-> sources[i].url, title |-> sources[i].title,
                       content |-> Head(extracted).raw_content]
                 ELSE sources[i]],
             Tail(extracted))

\* [s for s in context["sources"] if s.get("url") not in failed_urls]
DropFailed(sources, failed_urls) ==
    LET Kept(src) == src.url \notin failed_urls
    IN  SelectSeq(sources, Kept)

\* what tavily_search returns once the extraction has answered
Enriched(sources, ext) ==
    DropFailed(AttachContent(sources, ext.results), ext.failed_results)

\* rows of serp_search
SerpRows(organic) ==
    LET top == SubSeq(organic, 1, IF Len(organic) < SerpLimit THEN Len(organic) ELSE SerpLimit)
    IN  [i \in 1..Len(top) |->
            [url |-> top[i].link, title |-> top[i].title, content |-> top[i].snippet]]

\* a variant that drops Provider B's rows whose url Provider A also returned
Merge_Dedup(a_rows, b_rows) ==
    LET New(row) == \A i \in 1..Len(a_rows) : a_rows[i].url # row.url
    IN  a_rows \o SelectSeq(b_rows, New)

\* tavily_search(query) + serp_search(query)
Merge(a_rows, b_rows) == a_rows \o b_rows

VARIABLES
    s_pc,       \* where search_web is: "tavily", "extract", "serp", "done", "raised"
    a_results,  \* response["results"] of Provider A
    extract,    \* extract_response, once the extraction has answered
    extracted,  \* whether client.extract was called and answered
    a_rows,     \* what tavily_search returned
    organic,    \* organic_results of Provider B
    s_out,      \* what search_web returned
    a_failed,   \* a call of Provider A (search or extract) raised
    b_failed    \* the call of Provider B raised

searchVars ==
    <<s_pc, a_results, extract, extracted, a_rows, organic, s_out, a_failed, b_failed>>

NoExtract == [results |-> <<>>, failed_results |-> {}]

SearchInit ==
    /\ s_pc = "tavily"
    /\ a_results = <<>>
    /\ extract = NoExtract
    /\ extracted = FALSE
    /\ a_rows = <<>>
    /\ organic = <<>>
    /\ s_out = <<>>
    /\ a_failed = FALSE
    /\ b_failed = FALSE

\* an exception leaves search_web: nothing in it catches a provider's
SearchRaise ==
    /\ s_pc' = "raised"
    /\ UNCHANGED <<a_results, extract, extracted, a_rows, organic, s_out>>

\* client.search answers: without urls to extract tavily_search returns
tavily_search_returns(results) ==
    /\ s_pc = "tavily"
    /\ a_results' = results
    /\ IF UrlsToExtract(Sources(results)) = <<>>
       THEN /\ a_rows' = Sources(results)
            /\ s_pc' = "serp"
       ELSE /\ s_pc' = "extract"
            /\ UNCHANGED a_rows
    /\ UNCHANGED <<extract, extracted, organic, s_out, a_failed, b_failed>>

tavily_search_raises ==
    /\ s_pc = "tavily"
    /\ a_failed' = TRUE
    /\ SearchRaise
    /\ UNCHANGED b_failed

\* client.extract answers and tavily_search returns
tavily_extract_returns(ext) ==
    /\ s_pc = "extract"
    /\ extract' = ext
    /\ extracted' = TRUE
    /\ a_rows' = Enriched(Sources(a_results), ext)
    /\ s_pc' = "serp"
    /\ UNCHANGED <<a_results, organic, s_out, a_failed, b_failed>>

tavily_extract_raises ==
    /\ s_pc = "extract"
    /\ a_failed' = TRUE
    /\ SearchRaise
    /\ UNCHANGED b_failed

\* Provider B answers and search_web returns
serp_search_returns(org) ==
    /\ s_pc = "serp"
    /\ organic' = org
    /\ s_out' = Merge(a_rows, SerpRows(org))
    /\ s_pc' = "done"
    /\ UNCHANGED <<a_results, extract, extracted, a_rows, a_failed, b_failed>>

serp_search_raises ==
    /\ s_pc = "serp"
    /\ b_failed' = TRUE
    /\ SearchRaise
    /\ UNCHANGED a_failed

-----------------------------------------------------------------------------
(* One pipeline stage on its own: the stage's loop applied to a stream *)

\* the most events of a stream, and the most parts of an event, in StageSpec
MaxEvents == 2
MaxParts == 2

StageEvents ==
    {Ev(f, TRUE, p) : f \in BOOLEAN, p \in SeqsUpTo({F1, F2}, MaxParts)}
        \cup {Ev(f, FALSE, <<>>) : f \in BOOLEAN}

StageStreams ==
    {St(ev, raises) : ev \in SeqsUpTo(StageEvents, MaxEvents), raises \in BOOLEAN}

VARIABLES
    st_stage,   \* the stage that ran: "refine", "planner", "search", "writer", or ""
    st_stream,  \* the stream its runner produced
    st_result   \* the stage's result, or the exception

stageVars == <<st_stage, st_stream, st_result>>

StageInit ==
    /\ st_stage = ""
    /\ st_stream = St(<<>>, FALSE)
    /\ st_result = Ok(<<>>)

RunStage(name, stream, r) ==
    /\ st_stage = ""
    /\ st_stage' = name
    /\ st_stream' = stream
    /\ st_result' = r

refine_stage(stream) == RunStage("refine", stream, RefinedQuery(stream))

planner_stage(stream) == RunStage("planner", stream, SearchPlan(stream))

search_stage(stream) == RunStage("search", stream, SearchResults(stream))

writer_stage(stream) == RunStage("writer", stream, WriterReport(stream))

-----------------------------------------------------------------------------
(* _split_message on its own: inputs and state *)

\* the longest text _split_message is given in the model
MaxSplitLen == 5

\* the largest limit _split_message is given in the model
MaxLimit == 3

\* the texts: every string of letters and newlines up to the bound
SplitTexts == SeqsUpTo({"x", NL}, MaxSplitLen)

\* the limits: handle_text passes none (4096); a caller may pass any int
SplitLimits == 0..MaxLimit

VARIABLES
    sp_pc,      \* "input" before the call, "done" after it
    sp_md,      \* the argument md
    sp_limit,   \* the argument limit
    sp_out      \* the list returned

splitVars == <<sp_pc, sp_md, sp_limit, sp_out>>

SplitInit ==
    /\ sp_pc = "input"
    /\ sp_md = <<>>
    /\ sp_limit = DefaultLimit
    /\ sp_out = <<>>

\* one call of _split_message with the limit given
split_message_call(md, limit) ==
    /\ sp_pc = "input"
    /\ sp_md' = md
    /\ sp_limit' = limit
    /\ sp_out' = split_message(md, limit)
    /\ sp_pc' = "done"

\* one call of _split_message with the default limit, as handle_text makes it
split_message_default(md) ==
    /\ sp_pc = "input"
    /\ sp_md' = md
    /\ sp_limit' = DefaultLimit
    /\ sp_out' = split_message(md, DefaultLimit)
    /\ sp_pc' = "done"

-----------------------------------------------------------------------------
(* Specifications *)

vars == <<convVars, searchVars, stageVars, splitVars>>

Init == ConvInit /\ SearchInit /\ StageInit /\ SplitInit

Next ==
    \/ (start /\ UNCHANGED <<searchVars, stageVars, splitVars>>)
    \/ (cancel /\ UNCHANGED <<searchVars, stageVars, splitVars>>)
    \/ \E t \in Texts : handle_text_waiting_query(t) /\ UNCHANGED <<searchVars, stageVars, splitVars>>
    \/ \E stream \in ClarifyStreams : clarify_returns(stream) /\ UNCHANGED <<searchVars, stageVars, splitVars>>
    \/ \E t \in Texts : handle_text_asking(t) /\ UNCHANGED <<searchVars, stageVars, splitVars>>
    \/ \E stream \in Streams : refine_returns(stream) /\ UNCHANGED <<searchVars, stageVars, splitVars>>
    \/ \E stream \in Streams : planner_returns(stream) /\ UNCHANGED <<searchVars, stageVars, splitVars>>
    \/ \E stream \in Streams : search_returns(stream) /\ UNCHANGED <<searchVars, stageVars, splitVars>>
    \/ \E stream \in Streams : writer_returns(stream) /\ UNCHANGED <<searchVars, stageVars, splitVars>>
    \/ (send_report /\ UNCHANGED <<searchVars, stageVars, splitVars>>)
    \/ \E t \in Texts : handle_text_email_decision(t) /\ UNCHANGED <<searchVars, stageVars, splitVars>>
    \/ \E t \in Texts : handle_text_email_addr(t) /\ UNCHANGED <<searchVars, stageVars, splitVars>>
    \/ \E stream \in Streams : email_returns(stream) /\ UNCHANGED <<searchVars, stageVars, splitVars>>

\* the conversation of one user
Spec == Init /\ [][Next]_vars

SearchNext ==
    \/ \E results \in TavilyResults : tavily_search_returns(results) /\ UNCHANGED <<convVars, stageVars, splitVars>>
    \/ (tavily_search_raises /\ UNCHANGED <<convVars, stageVars, splitVars>>)
    \/ \E ext \in ExtractResponses : tavily_extract_returns(ext) /\ UNCHANGED <<convVars, stageVars, splitVars>>
    \/ (tavily_extract_raises /\ UNCHANGED <<convVars, stageVars, splitVars>>)
    \/ \E org \in OrganicResults : serp_search_returns(org) /\ UNCHANGED <<convVars, stageVars, splitVars>>
    \/ (serp_search_raises /\ UNCHANGED <<convVars, stageVars, splitVars>>)

\* one call of search_web
SearchSpec == Init /\ [][SearchNext]_vars

StageNext ==
    \/ \E stream \in StageStreams : refine_stage(stream) /\ UNCHANGED <<convVars, searchVars, splitVars>>
    \/ \E stream \in StageStreams : planner_stage(stream) /\ UNCHANGED <<convVars, searchVars, splitVars>>
    \/ \E stream \in StageStreams : search_stage(stream) /\ UNCHANGED <<convVars, searchVars, splitVars>>
    \/ \E stream \in StageStreams : writer_stage(stream) /\ UNCHANGED <<convVars, searchVars, splitVars>>

\* one stage of the pipeline applied to one stream
StageSpec == Init /\ [][StageNext]_vars

SplitNext ==
    \/ \E md \in SplitTexts, limit \in SplitLimits :
           split_message_call(md, limit) /\ UNCHANGED <<convVars, searchVars, stageVars>>
    \/ \E md \in SplitTexts :
           split_message_default(md) /\ UNCHANGED <<convVars, searchVars, stageVars>>

\* one call of _split_message
SplitSpec == Init /\ [][SplitNext]_vars

-----------------------------------------------------------------------------
(* Claims about the conversation, checked under Spec *)

InAsking == CurrentStage = ASKING

EmailStages == {EMAIL_DECISION, EMAIL_ADDR}

PipelinePcs == {"refine", "planner", "search", "writer"}

\* C1: in every reachable session state whose stage is ASKING,
\* 0 <= q_idx <= len(questions) and len(answers) == q_idx, whatever list of
\* questions the clarify agent returned (repeated questions included).
C1_AskingInvariant ==
    InAsking =>
        /\ 0 <= user_data["q_idx"]
        /\ user_data["q_idx"] <= Len(user_data["questions"])
        /\ Len(user_data["answers"]) = user_data["q_idx"]

\* C2 as claimed, for the states between two updates: report is defined if and
\* only if the stage is EMAIL_DECISION or EMAIL_ADDR.
C2_ReportIffEmailStage ==
    pc = "idle" => (Has(user_data, "report") <=> CurrentStage \in EmailStages)

\* C2 as amended: whenever the stage is EMAIL_DECISION or EMAIL_ADDR the report
\* is defined; and a defined report stays defined until start or cancel
\* replaces the session (so it is still there in WAITING_QUERY and ASKING
\* after a "no", after a sent email and during a second research cycle).
C2_EmailStageHasReport ==
    /\ [](CurrentStage \in EmailStages => Has(user_data, "report"))
    /\ [][(Has(user_data, "report") /\ ~Has(user_data', "report"))
            => user_data' \in {EmptyDict, Put(EmptyDict, "stage", WAITING_QUERY)}]_vars

\* C2's case: a second research cycle is in ASKING with the first cycle's
\* report still stored, after the email stages were passed through.
C2_Witness ==
    /\ InAsking
    /\ Has(user_data, "report")
    /\ user_data["q_idx"] = 1

\* C3: once three free-text answers were handled in a session that entered
\* ASKING with at least three questions, q_idx is 3 and answers has exactly
\* three entries, keyed by the first three questions in the order asked, each
\* with the answer of its turn.
C3_ThreeAnswers ==
    (/\ Has(user_data, "answers")
     /\ Len(user_data["questions"]) >= 3
     /\ Len(answered) = 3)
        => /\ user_data["q_idx"] = 3
           /\ user_data["answers"] =
                  [i \in 1..3 |-> <<user_data["questions"][i], answered[i]>>]

\* an update handled in ASKING (start and cancel drop the questions)
AnswerHandled == pc = "idle" /\ InAsking /\ Has(user_data', "questions")

\* C4: an answer at q_idx < 2, when there is a next question, keeps the stage
\* ASKING, records the answer and sends that question; the answer at
\* q_idx == 2 records the answer and starts the pipeline; while the pipeline is
\* in flight the stage is ASKING and neither a chunk nor the email prompt has
\* been sent; the stage becomes EMAIL_DECISION only in the step that follows the
\* pipeline's return and the storing of the report, and that step sends the
\* report's chunks first and the email prompt last.
C4_Step ==
    /\ (AnswerHandled /\ user_data["q_idx"] < 2
            /\ user_data["q_idx"] + 2 <= Len(user_data["questions"]))
        => /\ CurrentStage' = ASKING
           /\ pc' = "idle"
           /\ user_data'["q_idx"] = user_data["q_idx"] + 1
           /\ sent' = <<user_data["questions"][user_data["q_idx"] + 2]>>
    /\ (AnswerHandled /\ user_data["q_idx"] = 2
            /\ 3 <= Len(user_data["questions"]))
        => /\ CurrentStage' = ASKING
           /\ pc' = "refine"
           /\ user_data'["q_idx"] = 3
           /\ sent' = <<WorkingMsg>>
    /\ pc \in PipelinePcs
        => /\ CurrentStage = ASKING
           /\ sent = <<WorkingMsg>>
    /\ (CurrentStage' = EMAIL_DECISION /\ CurrentStage # EMAIL_DECISION)
        => /\ pc = "send"
           /\ Len(outs) = 4
           /\ Has(user_data, "report")
           /\ user_data["report"] = outs[4]
           /\ sent' = <<WorkingMsg>> \o ReportMessages(outs[4]) \o <<EmailPromptMsg>>

\* C4, as a property of every step of the conversation
C4_PipelineBeforeEmailDecision == [][C4_Step]_vars

\* C4's case: the third answer's update ended in EMAIL_DECISION having sent
\* a report chunk and then the prompt.
C4_Witness ==
    /\ CurrentStage = EMAIL_DECISION
    /\ Len(sent) >= 3
    /\ sent[Len(sent)] = EmailPromptMsg
    /\ user_data["q_idx"] = 3

\* the order of the pipeline's runners
StageOrder == <<"refine", "planner", "search", "writer">>

\* C5: while create_report_pipline runs, the run_async calls made so far are
\* those of refine, planner, search, writer in this order, each with the
\* user's id and the session id "tg_" + user id; the text of every call after
\* the first is the result of the stage before it; and a stage is started only
\* when all stages before it have produced their result.
C5_StagesInOrder ==
    pc \in PipelinePcs \cup {"send"} =>
        LET n == Len(calls)
        IN  /\ n \in 1..4
            /\ \A i \in 1..n :
                   /\ calls[i].runner = StageOrder[i]
                   /\ calls[i].user_id = uid
                   /\ calls[i].session_id = <<"tg_">> \o uid
            /\ Len(outs) = (IF pc = "send" THEN 4 ELSE n - 1)
            /\ pc \in PipelinePcs => calls[n].runner = pc
            /\ \A i \in 2..n : calls[i].text = outs[i - 1]

\* C5's case: all four stages have run, and the search stage's result, which
\* the writer was started with, differs from the refined query.
C5_Witness ==
    /\ pc = "send"
    /\ Len(calls) = 4
    /\ outs[3] # outs[1]
    /\ calls[4].text = outs[3]

\* C7: at the end of an update in which a pipeline stage consumed a stream
\* without a final response event, the handler has failed, no report chunk
\* and no email prompt was sent, and the stage is not EMAIL_DECISION.
C7_NoFinalResponseFails ==
    (pc = "idle" /\ no_final) =>
        /\ outcome # "ok"
        /\ sent = <<WorkingMsg>>
        /\ CurrentStage # EMAIL_DECISION

\* C8: at the end of an update whose pipeline met an exception of the
\* Reasoning Service, the user has been sent exactly one message after the
\* working notice (the failure notice), no report chunk, and the stage is
\* WAITING_QUERY.
C8_PipelineFailureReported ==
    (pc = "idle" /\ outcome = "ServiceError" /\ sent # <<>> /\ sent[1] = WorkingMsg) =>
        /\ CurrentStage = WAITING_QUERY
        /\ Len(sent) = 2

-----------------------------------------------------------------------------
(* The claim about one stage's result, checked under StageSpec *)

\* the concatenation of a sequence of strings, with nothing between them
RECURSIVE Concat(_)
Concat(parts) == IF parts = <<>> THEN <<>> ELSE Head(parts) \o Concat(Tail(parts))

\* the parts of the stream's final response event: its first final event
RECURSIVE FinalEventParts(_)
FinalEventParts(events) ==
    IF events = <<>> THEN <<>>
    ELSE IF Head(events).final THEN Head(events).parts
    ELSE FinalEventParts(Tail(events))

\* C6: the result of a stage that produced one is the concatenation, in
\* order, of all text fragments of the stream's final response event, with
\* nothing between them and nothing of another event.
C6_ResultIsConcatOfFinalParts ==
    (st_stage # "" /\ st_result.err = "" /\ ~NoFinal(st_stream)) =>
        st_result.value = Concat(FinalEventParts(st_stream.events))

-----------------------------------------------------------------------------
(* Claims about search_web, checked under SearchSpec *)

\* C9: when exactly one provider call fails search_web does not raise; it
\* raises only when both providers failed; and when both providers return no
\* result it returns the empty list.
C9_SingleFailureAbsorbed ==
    /\ (a_failed # b_failed) => s_pc # "raised"
    /\ s_pc = "raised" => (a_failed /\ b_failed)
    /\ (s_pc = "done" /\ a_results = <<>> /\ organic = <<>>) => s_out = <<>>

\* the urls the extraction reported as failed, and those it extracted
FailedUrls == extract.failed_results

ExtractedUrls == {extract.results[j].url : j \in 1..Len(extract.results)}

\* the content of the last extraction result for a url
ContentFor(u) ==
    LET last == CHOOSE j \in 1..Len(extract.results) :
                    /\ extract.results[j].url = u
                    /\ \A k \in (j + 1)..Len(extract.results) : extract.results[k].url # u
    IN  extract.results[last].raw_content

\* Provider A's entries whose url did not fail, in their order, with the
\* content of those that were extracted
SurvivingA ==
    LET NotFailed(r) == r.url \notin FailedUrls
        kept == SelectSeq(a_results, NotFailed)
    IN  [i \in 1..Len(kept) |->
            IF kept[i].url \in ExtractedUrls
            THEN [url |-> kept[i].url, title |-> kept[i].title,
                  content |-> ContentFor(kept[i].url)]
            ELSE [url |-> kept[i].url, title |-> kept[i].title]]

\* Provider B's entries: the first five organic results, as rows
EntriesB ==
    [i \in 1..(IF Len(organic) < 5 THEN Len(organic) ELSE 5) |->
        [url |-> organic[i].link, title |-> organic[i].title,
         content |-> organic[i].snippet]]

\* C10: when both providers answered, search_web returns Provider A's entries
\* whose url is not among the failed extractions, in their original order and
\* with content on those whose url was extracted, followed by all of Provider
\* B's entries, unchanged and in their original order: nothing is deduplicated
\* between the two, and an entry of B stays even when its url is a failed one.
C10_MergedOutput ==
    s_pc = "done" => s_out = SurvivingA \o EntriesB

\* C10's case: an entry of A was dropped for a failed extraction, another
\* carries extracted content, and B contributes an entry with a failed url
\* and one with the url of a surviving entry of A.
C10_Witness ==
    /\ s_pc = "done"
    /\ extracted
    /\ Len(SurvivingA) < Len(a_results)
    /\ \E i \in 1..Len(SurvivingA) : "content" \in DOMAIN SurvivingA[i]
    /\ \E i \in 1..Len(EntriesB) : EntriesB[i].url \in FailedUrls
    /\ \E i \in 1..Len(EntriesB), j \in 1..Len(SurvivingA) :
           EntriesB[i].url = SurvivingA[j].url
    /\ Len(s_out) = Len(SurvivingA) + Len(EntriesB)

-----------------------------------------------------------------------------
(* Claims about the turns of one user, checked under Spec *)

\* the stage a suspended handle_text read when its turn began
StageRead(p) ==
    IF p = "clarify" THEN WAITING_QUERY
    ELSE IF p = "email" THEN EMAIL_ADDR
    ELSE ASKING

\* where a suspended handle_text is after its next step
NextSteps(p) ==
    IF p = "refine" THEN {"planner", "idle"}
    ELSE IF p = "planner" THEN {"search", "idle"}
    ELSE IF p = "search" THEN {"writer", "idle"}
    ELSE IF p = "writer" THEN {"send", "idle"}
    ELSE {"idle"}

\* the fields of the session that an answer's turn reads and writes
AnswerFields == {"questions", "query", "answers", "q_idx"}

\* C11: from a turn's read of the stage to its return, every step is that
\* turn's own next step: while a handle_text is suspended at an await the
\* session's stage is still the stage it read, no other turn begins (the
\* handler goes on to its next await or ends), the replies sent so far are
\* only extended, and the session is written by nobody else: the questions,
\* the query, the answers and q_idx change only when the clarify turn enters
\* ASKING, so no second answer is recorded for the same q_idx and no second
\* clarification starts from the same WAITING_QUERY.
C11_Step ==
    pc # "idle" =>
        /\ CurrentStage = StageRead(pc)
        /\ pc' \in NextSteps(pc)
        /\ Len(sent') >= Len(sent)
        /\ SubSeq(sent', 1, Len(sent)) = sent
        /\ pc # "clarify" =>
               \A k \in AnswerFields :
                   /\ Has(user_data, k)
                   /\ Has(user_data', k)
                   /\ user_data'[k] = user_data[k]
        /\ pc \in {"refine", "planner", "search"} => user_data' = user_data

EmailAddrTurn == pc = "idle" /\ CurrentStage = EMAIL_ADDR /\ last_text' # <<>>

\* C13: in EMAIL_ADDR a message without "@" leaves the whole session as it is
\* (the stage stays EMAIL_ADDR), makes no call of the email runner and sends
\* the rejection message; a message with "@" makes exactly one call of the
\* email runner, whose text holds the stored report and that address, writes
\* and sends nothing before the call, and when the email stage's run ends
\* without an exception the session is in WAITING_QUERY.
C13_Step ==
    /\ (EmailAddrTurn /\ ~Contains(last_text', "@"))
        => /\ user_data' = user_data
           /\ CurrentStage' = EMAIL_ADDR
           /\ calls' = <<>>
           /\ pc' = "idle"
           /\ sent' = <<BadAddressMsg>>
    /\ (EmailAddrTurn /\ Contains(last_text', "@"))
        => /\ user_data' = user_data
           /\ pc' = "email"
           /\ sent' = <<>>
           /\ calls' = <<Call("email", uid, <<"tg_">> \o uid,
                             EmailPrompt(user_data["report"], Strip(last_text')))>>
    /\ (pc = "email" /\ pc' = "idle" /\ outcome' = "ok")
        => /\ CurrentStage' = WAITING_QUERY
           /\ Len(calls) = 1

C13_EmailAddress == [][C13_Step]_vars

\* C13's case: an address with "@" was handled in EMAIL_ADDR, the email stage
\* ran and the session is back in WAITING_QUERY.
C13_Witness ==
    /\ pc = "idle"
    /\ Contains(last_text, "@")
    /\ sent = <<SentMsg>>
    /\ CurrentStage = WAITING_QUERY

\* C14: at the end of an update handled in EMAIL_ADDR whose email stage
\* raised or ended without a final response, the user has been sent a
\* message (the notice that sending failed), no "Sent" confirmation was sent,
\* and the stage is still EMAIL_ADDR.
C14_MailFailureReported ==
    (pc = "idle" /\ mail_failed) =>
        /\ sent # <<>>
        /\ \A i \in 1..Len(sent) : sent[i] # SentMsg
        /\ CurrentStage = EMAIL_ADDR

\* a free-text update handled in EMAIL_DECISION
EmailDecisionTurn == pc = "idle" /\ CurrentStage = EMAIL_DECISION /\ last_text' # <<>>

\* the session but for its stage
SameButStage(ud1, ud2) ==
    /\ DOMAIN ud1 = DOMAIN ud2
    /\ \A k \in DOMAIN ud1 \ {"stage"} : ud1[k] = ud2[k]

\* C15: in EMAIL_DECISION a message that, whatever its letters' case, is one
\* of the affirmations "yes", "y", "yeah", "sure" moves the session to
\* EMAIL_ADDR; any other message moves it to WAITING_QUERY, and then no
\* report chunk is sent again (the only reply is the closing message), no
\* call of the email runner is made, and report keeps its value (as does
\* every field but the stage).
C15_Step ==
    /\ (EmailDecisionTurn /\ Lower(Strip(last_text')) \in {<<"y">>, <<"y", "e", "s">>,
                                 <<"y", "e", "a", "h">>, <<"s", "u", "r", "e">>})
        => /\ CurrentStage' = EMAIL_ADDR
           /\ pc' = "idle"
           /\ sent' = <<AskAddressMsg>>
    /\ (EmailDecisionTurn /\ Lower(Strip(last_text')) \notin {<<"y">>, <<"y", "e", "s">>,
                                 <<"y", "e", "a", "h">>, <<"s", "u", "r", "e">>})
        => /\ CurrentStage' = WAITING_QUERY
           /\ pc' = "idle"
           /\ sent' = <<NoProblemMsg>>
           /\ calls' = <<>>
           /\ Has(user_data', "report")
           /\ user_data'["report"] = user_data["report"]
    /\ EmailDecisionTurn => SameButStage(user_data, user_data')

C15_EmailDecision == [][C15_Step]_vars

\* C15's case: a message that is no affirmation was handled in
\* EMAIL_DECISION; the session is in WAITING_QUERY with its report.
C15_Witness ==
    /\ pc = "idle"
    /\ sent = <<NoProblemMsg>>
    /\ CurrentStage = WAITING_QUERY
    /\ Has(user_data, "report")
    /\ last_text # <<>>

\* the cancel command is handled: it is the only handler that says goodbye
CancelHandled == pc = "idle" /\ last_text' = <<>> /\ sent' = <<ByeMsg>>

\* C16: whatever the stage, the step of the cancel command leaves a session
\* without any field (no stage, query, questions, answers, q_idx or report),
\* whose stage reads as WAITING_QUERY; and a free-text message handled on such
\* a session is taken as a new research question: it changes no field and
\* starts the clarify runner on the message's text.
C16_Step ==
    /\ CancelHandled
        => /\ DOMAIN user_data' = {}
           /\ CurrentStage' = WAITING_QUERY
           /\ pc' = "idle"
    /\ (pc = "idle" /\ DOMAIN user_data = {} /\ last_text' # <<>>)
        => /\ pc' = "clarify"
           /\ user_data' = user_data
           /\ calls' = <<Call("clarify", uid, <<"tg_">> \o uid, Strip(last_text'))>>

C16_CancelClears == [][C16_Step]_vars

\* C16's case: cancel was handled on a session that was in EMAIL_ADDR, with
\* a report and three answers, and nothing of it is left.
C16_Witness ==
    /\ pc = "idle"
    /\ sent = <<ByeMsg>>
    /\ stage_was = EMAIL_ADDR
    /\ DOMAIN user_data = {}

\* C17: whenever the pipeline is running, the text its refine runner was
\* called with is "User query: ", the query of the current cycle, an empty
\* line, and then one line "question->answer" for each of the three
\* questions asked in this cycle, in the order asked, each with the answer the
\* user gave to it in this cycle, and nothing else (so nothing of an earlier
\* cycle).
C17_RefineInput ==
    (pc \in PipelinePcs /\ Len(answered) >= 3) =>
        calls[1].text =
            <<"User query: ">> \o user_data["query"] \o <<NL, NL>>
                \o Join(<<NL>>, [i \in 1..3 |->
                        user_data["questions"][i] \o <<"->">> \o answered[i]])

-----------------------------------------------------------------------------
(* Claims about _split_message, checked under SplitSpec *)

\* the number of characters in the first i chunks returned
ChunkEnd(i) == Len(Concat(SubSeq(sp_out, 1, i)))

\* a position between two characters of md at which a line ends (or md does)
LineBoundary(k) == k = 0 \/ k = Len(sp_md) \/ (k \in 1..Len(sp_md) /\ sp_md[k] = NL)

\* the chunk holds one line: no newline but, at most, as its last character
OneLine(chunk) == \A j \in 1..(Len(chunk) - 1) : chunk[j] # NL

C20_NoEmptyChunk ==
    (sp_pc = "done" /\ sp_limit >= 1) =>
        \A i \in 1..Len(sp_out) : sp_out[i] # <<>>

-----------------------------------------------------------------------------
(* The claim about stuck sessions, checked under Spec *)

\* a free-text message is handed to handle_text
FreeText(t) ==
    \/ handle_text_waiting_query(t)
    \/ handle_text_asking(t)
    \/ handle_text_email_decision(t)
    \/ handle_text_email_addr(t)

\* the handler ends at once with an exception and the stage is as before
FaultsInPlace == pc' = "idle" /\ outcome' # "ok" /\ CurrentStage' = CurrentStage

\* C19: between two updates the session is never in a state in which every
\* free-text message faults and leaves the stage unchanged: some message is
\* handled without such a fault (as it must be if free-text messages alone
\* are to lead back to WAITING_QUERY), whatever the clarify agent returned.
C19_NoStuckState ==
    pc = "idle" => ENABLED (\E t \in Texts : FreeText(t) /\ ~FaultsInPlace)

=============================================================================
